---- MODULE Spec2Model ----
(***************************************************************************)
(* Model of src/semantic_test/fashion_bot.py: the Streamlit script that    *)
(* embeds a query, searches a Pinecone index and asks a chat model to      *)
(* narrate the matches.                                                    *)
(*                                                                         *)
(* Python values are tagged records ([t |-> "None"], [t |-> "str", ...]),  *)
(* so that "not x" is modelled by Python's truth test and not by a         *)
(* comparison with one value.  A remote service is a black box: the reply  *)
(* of each call is drawn from a bounded set (a value, or a raise).         *)
(***************************************************************************)
EXTENDS Integers, Sequences, FiniteSets, TLC

VARIABLES PINECONE_API_KEY, query, button, pc, index, query_embedding,
          search_results, response, stylist_response, ui, calls, trace,
          outcome, args, res

vars == <<PINECONE_API_KEY, query, button, pc, index, query_embedding,
          search_results, response, stylist_response, ui, calls, trace,
          outcome, args, res>>

mainVars == <<query, button, pc, index, query_embedding, search_results,
              response, stylist_response, ui, calls, trace, outcome>>

----------------------------------------------------------------------------
(* Bounds *)

MaxMatches == 2

MaxChoices == 2

MaxTopK == 3

(* top_k=5, the default of search_pinecone, which main() relies on *)
DefaultTopK == 5

----------------------------------------------------------------------------
(* Python values *)

None == [t |-> "None"]

PyStr(s) == [t |-> "str", s |-> s]

PyInt(i) == [t |-> "int", i |-> i]

Dict(d) == [t |-> "dict", d |-> d]

PyList(l) == [t |-> "list", l |-> l]

(* the object pc.Index(...) returns *)
IndexHandle == [t |-> "Index", name |-> "fashionproducts"]

(* Python's truth test, as "not x" and "if x" apply it *)
Truthy(v) ==
    CASE v.t = "None" -> FALSE
      [] v.t = "str"  -> v.s # ""
      [] v.t = "int"  -> v.i # 0
      [] v.t = "dict" -> DOMAIN v.d # {}
      [] v.t = "list" -> Len(v.l) # 0
      [] OTHER        -> TRUE

(* what an f-string replacement field {v} renders *)
PyFormat(v) ==
    CASE v.t = "None" -> "None"
      [] v.t = "str"  -> v.s
      [] v.t = "int"  -> ToString(v.i)
      [] OTHER        -> "<object>"

EmptyMap == [k \in {} |-> None]

Restrict(f, S) == [k \in S |-> f[k]]

----------------------------------------------------------------------------
(* The data the services can hold and return *)

RequiredKeys == {"name", "category", "price", "url"}

MetaKeys == RequiredKeys \cup {"description"}

(* the order in which the comprehension reads the keys of one match *)
KeyOrder == <<"name", "category", "price", "description", "url">>

Products == {1, 2}

FullMeta(p) ==
    IF p = 1
    THEN [name |-> PyStr("Classic Tee"), category |-> PyStr("Shirts"),
          price |-> PyInt(25), description |-> PyStr("soft cotton"),
          url |-> PyStr("http://x/1")]
    ELSE [name |-> PyStr("Soft Crew"), category |-> PyStr("Shirts"),
          price |-> PyInt(30), description |-> PyStr("crew neck"),
          url |-> PyStr("http://x/2")]

(* the key sets a stored record may carry: complete, without the optional
   description, or lacking one required key *)
MetaKeySets ==
    {MetaKeys, RequiredKeys} \cup {MetaKeys \ {k} : k \in RequiredKeys}

Matches == {[metadata |-> Restrict(FullMeta(p), K)] :
                p \in Products, K \in MetaKeySets}

RECURSIVE SeqsUpTo(_, _)
SeqsUpTo(S, n) ==
    IF n = 0 THEN {<<>>}
    ELSE LET shorter == SeqsUpTo(S, n - 1)
         IN  shorter \cup {Append(s, x) : s \in {q \in shorter : Len(q) = n - 1}, x \in S}

Min(a, b) == IF a < b THEN a ELSE b

(* what index.query may return for a given top_k: a response carrying at most
   top_k matches, a response without a "matches" entry, an empty mapping,
   nothing, or a raise *)
Exc(type) == [type |-> type]

Raise(e) == [t |-> "raise", exc |-> Exc(e)]

IsRaise(r) == r.t = "raise"

QueryReplies(top_k) ==
    {Dict([matches |-> m]) : m \in SeqsUpTo(Matches, Min(top_k, MaxMatches))}
    \cup {Dict([namespace |-> PyStr("")]), Dict(EmptyMap), None,
          Raise("PineconeException")}

Embeddings == {PyList(<<1, 2, 3>>), PyList(<<3, 2, 1>>)}

EmbeddingReplies == Embeddings \cup {Raise("OpenAIError")}

Texts == {"Try the Classic Tee!", "<b>Soft Crew</b> it is."}

Choice(text) == [message |-> [role |-> "assistant", content |-> text]]

ChatReplies ==
    {[t |-> "ChatCompletion", choices |-> c] :
        c \in SeqsUpTo({Choice(x) : x \in Texts}, MaxChoices)}
    \cup {Raise("OpenAIError")}

ClientReplies == {IndexHandle, Raise("PineconeConfigurationError")}

(* what st.text_input hands to the script *)
Queries == {None, PyStr(""), PyStr(" "), PyStr("comfortable black shirts")}

Keys == {None, PyStr(""), PyStr("pk-live")}

----------------------------------------------------------------------------
(* Requests sent to the remote services *)

ClientCall(key) ==
    [svc |-> "Pinecone", api_key |-> key, environment |-> "us-east-1-aws",
     index_name |-> "fashionproducts"]

EmbeddingCall(q) ==
    [svc |-> "Embedding.create", input |-> q, model |-> "text-embedding-ada-002"]

QueryCall(v, k) ==
    [svc |-> "index.query", vector |-> v, top_k |-> k, include_metadata |-> TRUE]

ChatCall(prompt) ==
    [svc |-> "ChatCompletion.create", model |-> "gpt-4",
     messages |-> <<[role |-> "system", content |-> "You are a fashion stylist."],
                    [role |-> "user", content |-> prompt]>>]

(* the result of running one function: it returns a value or raises, after
   sending `sent` to the services and writing `shown` to the page *)
Returned(v, sent, shown) ==
    [kind |-> "return", value |-> v, sent |-> sent, shown |-> shown]

Raised(e, sent, shown) ==
    [kind |-> "raise", exc |-> e, sent |-> sent, shown |-> shown]

----------------------------------------------------------------------------
(* The page *)

StError(msg) == [st |-> "error", body |-> msg]

StWarning(msg) == [st |-> "warning", body |-> msg]

StSubheader(msg) == [st |-> "subheader", body |-> msg]

StMarkdown(v) == [st |-> "markdown", body |-> v, unsafe_allow_html |-> TRUE]

MissingKeyMsg == "Pinecone API key is missing. Check environment variables."

InitFailedMsg == "Failed to initialize Pinecone services."

NoResultsMsg == "No results found for your query."

EnterQueryMsg == "Please enter a query to get recommendations."

RecommendsMsg == "Your Personal Stylist Recommends:"

Apology == "Sorry, I couldn't find any relevant products."

----------------------------------------------------------------------------
(* initialize_services(): `reply` is what constructing the client and the
   index object gives when the code gets that far *)

initialize_services_NoKeyCheck(key, reply) ==
    IF IsRaise(reply)
    THEN Raised(reply.exc, <<ClientCall(key)>>, <<>>)
    ELSE Returned(reply, <<ClientCall(key)>>, <<>>)

initialize_services(key, reply) ==
    IF ~Truthy(key)
    THEN Returned(None, <<>>, <<StError(MissingKeyMsg)>>)
    ELSE IF IsRaise(reply)
         THEN Raised(reply.exc, <<ClientCall(key)>>, <<>>)
         ELSE Returned(reply, <<ClientCall(key)>>, <<>>)

(* generate_query_embedding(query) *)
generate_query_embedding(q, reply) ==
    IF IsRaise(reply)
    THEN Raised(reply.exc, <<EmbeddingCall(q)>>, <<>>)
    ELSE Returned(reply, <<EmbeddingCall(q)>>, <<>>)

(* search_pinecone(index, query_embedding, top_k) *)
search_pinecone_NoGuard(idx, emb, top_k, reply) ==
    IF ~Truthy(idx)
    THEN Raised(Exc("AttributeError"), <<>>, <<>>)
    ELSE IF IsRaise(reply)
         THEN Raised(reply.exc, <<QueryCall(emb, top_k)>>, <<>>)
         ELSE Returned(reply, <<QueryCall(emb, top_k)>>, <<>>)

search_pinecone(idx, emb, top_k, reply) ==
    IF ~Truthy(idx)
    THEN Returned(None, <<>>, <<>>)
    ELSE IF IsRaise(reply)
         THEN Raised(reply.exc, <<QueryCall(emb, top_k)>>, <<>>)
         ELSE Returned(reply, <<QueryCall(emb, top_k)>>, <<>>)

----------------------------------------------------------------------------
(* format_results_as_stylist_response(search_results, query) *)

HasKey(v, k) == v.t = "dict" /\ k \in DOMAIN v.d

(* the keys match['metadata'][k] is read for; description is read with .get *)
MissingKeys(match) == RequiredKeys \ DOMAIN match.metadata

FirstMissingKey(match) ==
    LET i == CHOOSE j \in 1..Len(KeyOrder) :
                 /\ KeyOrder[j] \in MissingKeys(match)
                 /\ \A h \in 1..(j - 1) : KeyOrder[h] \notin MissingKeys(match)
    IN  KeyOrder[i]

(* one entry of `products` *)
Product(match) ==
    [name |-> match.metadata["name"],
     category |-> match.metadata["category"],
     price |-> match.metadata["price"],
     description |-> IF "description" \in DOMAIN match.metadata
                     THEN match.metadata["description"] ELSE PyStr(""),
     url |-> match.metadata["url"]]

(* the f-string of one table row, as the pieces it concatenates *)
ProductRow(product) ==
    <<"| ", PyFormat(product.name), " | ", PyFormat(product.category), " | ",
      PyFormat(product.price), " | ", PyFormat(product.description),
      " | [Link](", PyFormat(product.url), ") |">>

(* "\n".join(rows) *)
RECURSIVE JoinRows(_)
JoinRows(rows) ==
    IF Len(rows) = 0 THEN <<>>
    ELSE IF Len(rows) = 1 THEN rows[1]
    ELSE rows[1] \o <<"\n">> \o JoinRows(Tail(rows))

PromptIntro == "You are a personal stylist. The user is looking for fashion recommendations based on the following query: "

PromptTable == ". Based on the products retrieved from a database, craft a conversational response as a stylist [...] | **Name** | **Category** | **Price ($)** | **Description** | **URL** |"

PromptOutro == "After presenting the table, provide a friendly and stylish response. Be creative and make it engaging."

(* stylist_prompt: the template's fixed text around its two fields *)
StylistPrompt(q, product_rows) ==
    <<PromptIntro, PyFormat(q), PromptTable>> \o product_rows \o <<PromptOutro>>

ProductRows_Reversed(matches) ==
    JoinRows([i \in 1..Len(matches) |->
                 ProductRow(Product(matches[Len(matches) + 1 - i]))])

(* the list comprehension and the join: the rows of the matches, in order *)
ProductRows(matches) ==
    JoinRows([i \in 1..Len(matches) |-> ProductRow(Product(matches[i]))])

FirstChoice_Last(reply) == reply.choices[Len(reply.choices)].message.content

(* response['choices'][0]['message']['content'] *)
FirstChoice(reply) == reply.choices[1].message.content

FormatCompletion(prompt, reply) ==
    IF IsRaise(reply)
    THEN Raised(reply.exc, <<ChatCall(prompt)>>, <<>>)
    ELSE IF Len(reply.choices) = 0
         THEN Raised(Exc("IndexError"), <<ChatCall(prompt)>>, <<>>)
         ELSE Returned(PyStr(FirstChoice(reply)), <<ChatCall(prompt)>>, <<>>)

(* lines 62-98: the products, the prompt and the completion request *)
FormatMatches(matches, q, reply) ==
    LET bad == {i \in 1..Len(matches) : MissingKeys(matches[i]) # {}}
    IN  IF bad # {}
        THEN LET first == CHOOSE i \in bad : \A j \in bad : i <= j
             IN  Raised([type |-> "KeyError", key |-> FirstMissingKey(matches[first])],
                        <<>>, <<>>)
        ELSE FormatCompletion(StylistPrompt(q, ProductRows(matches)), reply)

format_results_SkipMalformed(sr, q, reply) ==
    IF ~Truthy(sr) \/ ~HasKey(sr, "matches")
    THEN Returned(PyStr(Apology), <<>>, <<>>)
    ELSE LET good == SelectSeq(sr.d["matches"], LAMBDA m : MissingKeys(m) = {})
         IN  FormatCompletion(StylistPrompt(q, ProductRows(good)), reply)

format_results_OnlyNullCheck(sr, q, reply) ==
    IF ~Truthy(sr)
    THEN Returned(PyStr(Apology), <<>>, <<>>)
    ELSE IF ~HasKey(sr, "matches")
         THEN Raised([type |-> "KeyError", key |-> "matches"], <<>>, <<>>)
         ELSE FormatMatches(sr.d["matches"], q, reply)

format_results_as_stylist_response(sr, q, reply) ==
    IF ~Truthy(sr) \/ ~HasKey(sr, "matches")
    THEN Returned(PyStr(Apology), <<>>, <<>>)
    ELSE FormatMatches(sr.d["matches"], q, reply)

----------------------------------------------------------------------------
(* main(): one run of the script per interaction with the page.  The run
   is cut at its remote calls; pc is the call the run is about to make. *)

(* line 119: not search_results or not search_results.get('matches') *)
NoResults_OnlyNull(sr) == ~Truthy(sr)

NoResults(sr) ==
    \/ ~Truthy(sr)
    \/ ~HasKey(sr, "matches")
    \/ Len(sr.d["matches"]) = 0

(* the run starts: locals unset, page cleared *)
FreshRun ==
    /\ index' = None
    /\ query_embedding' = None
    /\ search_results' = None
    /\ response' = None
    /\ stylist_response' = None
    /\ calls' = <<>>
    /\ trace' = <<>>

(* the text field is edited: the script reruns with the button not pressed *)
EditQuery ==
    /\ pc = "idle"
    /\ \E q \in Queries : query' = q
    /\ button' = FALSE
    /\ FreshRun
    /\ ui' = <<>>
    /\ outcome' = "returned"
    /\ UNCHANGED <<PINECONE_API_KEY, pc, args, res>>

Press_NoQueryCheck ==
    /\ pc = "idle"
    /\ button' = TRUE
    /\ FreshRun
    /\ ui' = <<>>
    /\ pc' = "initialize"
    /\ outcome' = "running"
    /\ UNCHANGED <<PINECONE_API_KEY, query, args, res>>

(* "Get Recommendations" is pressed: lines 108-109, 127-128 *)
Press ==
    /\ pc = "idle"
    /\ button' = TRUE
    /\ FreshRun
    /\ IF Truthy(query)
       THEN /\ ui' = <<>>
            /\ pc' = "initialize"
            /\ outcome' = "running"
       ELSE /\ ui' = <<StError(EnterQueryMsg)>>
            /\ pc' = "idle"
            /\ outcome' = "returned"
    /\ UNCHANGED <<PINECONE_API_KEY, query, args, res>>

(* an exception leaves main(): nothing catches it *)
Propagate(r) ==
    /\ calls' = calls \o r.sent
    /\ ui' = ui \o r.shown
    /\ pc' = "idle"
    /\ outcome' = "raised"

(* lines 111-114 *)
Initialize ==
    /\ pc = "initialize"
    /\ trace' = Append(trace, "initialize_services")
    /\ \E reply \in ClientReplies :
         LET r == initialize_services(PINECONE_API_KEY, reply)
         IN  IF r.kind = "raise"
             THEN Propagate(r) /\ UNCHANGED index
             ELSE /\ index' = r.value
                  /\ calls' = calls \o r.sent
                  /\ IF ~Truthy(r.value)
                     THEN /\ ui' = ui \o r.shown \o <<StError(InitFailedMsg)>>
                          /\ pc' = "idle"
                          /\ outcome' = "returned"
                     ELSE /\ ui' = ui \o r.shown
                          /\ pc' = "embed"
                          /\ UNCHANGED outcome
    /\ UNCHANGED <<PINECONE_API_KEY, query, button, query_embedding,
                   search_results, response, stylist_response, args, res>>

Embed_SwallowFailure ==
    /\ pc = "embed"
    /\ trace' = Append(trace, "generate_query_embedding")
    /\ \E reply \in EmbeddingReplies :
         LET r == generate_query_embedding(query, reply)
         IN  /\ query_embedding' = IF r.kind = "raise" THEN None ELSE r.value
             /\ calls' = calls \o r.sent
             /\ ui' = ui \o r.shown
             /\ pc' = "search"
             /\ UNCHANGED outcome
    /\ UNCHANGED <<PINECONE_API_KEY, query, button, index, search_results,
                   response, stylist_response, args, res>>

(* line 116 *)
Embed ==
    /\ pc = "embed"
    /\ trace' = Append(trace, "generate_query_embedding")
    /\ \E reply \in EmbeddingReplies :
         LET r == generate_query_embedding(query, reply)
         IN  IF r.kind = "raise"
             THEN Propagate(r) /\ UNCHANGED query_embedding
             ELSE /\ query_embedding' = r.value
                  /\ calls' = calls \o r.sent
                  /\ ui' = ui \o r.shown
                  /\ pc' = "search"
                  /\ UNCHANGED outcome
    /\ UNCHANGED <<PINECONE_API_KEY, query, button, index, search_results,
                   response, stylist_response, args, res>>

(* lines 117-121 *)
Search ==
    /\ pc = "search"
    /\ trace' = Append(trace, "search_pinecone")
    /\ \E reply \in QueryReplies(DefaultTopK) :
         LET r == search_pinecone(index, query_embedding, DefaultTopK, reply)
         IN  IF r.kind = "raise"
             THEN Propagate(r) /\ UNCHANGED search_results
             ELSE /\ search_results' = r.value
                  /\ calls' = calls \o r.sent
                  /\ IF NoResults(r.value)
                     THEN /\ ui' = ui \o r.shown \o <<StWarning(NoResultsMsg)>>
                          /\ pc' = "idle"
                          /\ outcome' = "returned"
                     ELSE /\ ui' = ui \o r.shown
                          /\ pc' = "format"
                          /\ UNCHANGED outcome
    /\ UNCHANGED <<PINECONE_API_KEY, query, button, index, query_embedding,
                   response, stylist_response, args, res>>

(* lines 123-126 *)
Format ==
    /\ pc = "format"
    /\ trace' = Append(trace, "format_results_as_stylist_response")
    /\ \E reply \in ChatReplies :
         LET r == format_results_as_stylist_response(search_results, query, reply)
         IN  /\ response' = IF r.sent = <<>> THEN None ELSE reply
             /\ IF r.kind = "raise"
                THEN Propagate(r) /\ UNCHANGED stylist_response
                ELSE /\ stylist_response' = r.value
                     /\ calls' = calls \o r.sent
                     /\ ui' = ui \o r.shown
                               \o <<StSubheader(RecommendsMsg), StMarkdown(r.value)>>
                     /\ pc' = "idle"
                     /\ outcome' = "returned"
    /\ UNCHANGED <<PINECONE_API_KEY, query, button, index, query_embedding,
                   search_results, args, res>>

----------------------------------------------------------------------------
(* Direct calls of the two functions whose guards main() never exercises.
   args is the call with the reply the service would give, res its result. *)

NoCall == [fn |-> "none"]

SearchArgs ==
    UNION {{[fn |-> "search_pinecone", index |-> idx, query_embedding |-> emb,
             top_k |-> k, reply |-> reply] :
               idx \in {None, IndexHandle}, emb \in Embeddings,
               reply \in QueryReplies(k)} : k \in 1..MaxTopK}

FormatArgs ==
    {[fn |-> "format_results_as_stylist_response", search_results |-> sr,
      query |-> q, reply |-> reply] :
        sr \in QueryReplies(MaxMatches) \ {Raise("PineconeException")},
        q \in Queries, reply \in ChatReplies}

CallSearch ==
    /\ args.fn = "search_pinecone"
    /\ res = NoCall
    /\ res' = search_pinecone(args.index, args.query_embedding, args.top_k, args.reply)
    /\ UNCHANGED <<PINECONE_API_KEY, mainVars, args>>

CallFormat ==
    /\ args.fn = "format_results_as_stylist_response"
    /\ res = NoCall
    /\ res' = format_results_as_stylist_response(args.search_results, args.query, args.reply)
    /\ UNCHANGED <<PINECONE_API_KEY, mainVars, args>>

InitCalls ==
    /\ PINECONE_API_KEY = PyStr("pk-live")
    /\ query = PyStr("")
    /\ button = FALSE
    /\ pc = "idle"
    /\ index = None
    /\ query_embedding = None
    /\ search_results = None
    /\ response = None
    /\ stylist_response = None
    /\ ui = <<>>
    /\ calls = <<>>
    /\ trace = <<>>
    /\ outcome = "none"
    /\ args \in SearchArgs \cup FormatArgs
    /\ res = NoCall

NextCalls == CallSearch \/ CallFormat

SpecCalls == InitCalls /\ [][NextCalls]_vars

Init ==
    /\ PINECONE_API_KEY \in Keys
    /\ query = PyStr("")
    /\ button = FALSE
    /\ pc = "idle"
    /\ index = None
    /\ query_embedding = None
    /\ search_results = None
    /\ response = None
    /\ stylist_response = None
    /\ ui = <<>>
    /\ calls = <<>>
    /\ trace = <<>>
    /\ outcome = "none"
    /\ args = NoCall
    /\ res = NoCall

Next == EditQuery \/ Press \/ Initialize \/ Embed \/ Search \/ Format

Spec == Init /\ [][Next]_vars

----------------------------------------------------------------------------
(* Helpers of the properties *)

Services(log) == [i \in 1..Len(log) |-> log[i].svc]

IsPrefix(a, b) == Len(a) <= Len(b) /\ \A i \in 1..Len(a) : a[i] = b[i]

PipelineCalls ==
    <<"Pinecone", "Embedding.create", "index.query", "ChatCompletion.create">>

PipelineStages ==
    <<"initialize_services", "generate_query_embedding", "search_pinecone",
      "format_results_as_stylist_response">>

Rendered == \E i \in 1..Len(ui) : ui[i].st \in {"subheader", "markdown"}

SearchCalled == res # NoCall /\ args.fn = "search_pinecone"

FormatCalled == res # NoCall /\ args.fn = "format_results_as_stylist_response"

(* the lines of a joined block: the pieces between the "\n" pieces *)
RECURSIVE SplitLines(_)
SplitLines(pieces) ==
    IF \A i \in 1..Len(pieces) : pieces[i] # "\n"
    THEN <<pieces>>
    ELSE LET n == CHOOSE i \in 1..Len(pieces) :
                      pieces[i] = "\n" /\ \A j \in 1..(i - 1) : pieces[j] # "\n"
         IN  <<SubSeq(pieces, 1, n - 1)>> \o SplitLines(SubSeq(pieces, n + 1, Len(pieces)))

(* the table rows of a prompt: what stands between the template's table header
   and its closing sentence *)
PromptRows(prompt) ==
    IF Len(prompt) = 4 THEN <<>> ELSE SplitLines(SubSeq(prompt, 4, Len(prompt) - 1))

SentPrompt(r) == r.sent[1].messages[2].content

HasSomeMatch(sr) ==
    /\ sr.t = "dict"
    /\ "matches" \in DOMAIN sr.d
    /\ Len(sr.d["matches"]) >= 1

CompleteMatches(sr) ==
    /\ HasSomeMatch(sr)
    /\ \A i \in 1..Len(sr.d["matches"]) : RequiredKeys \subseteq DOMAIN sr.d["matches"][i].metadata

----------------------------------------------------------------------------
(* C1: a press of the button with an empty or null query sends nothing to any
   service, calls none of the pipeline's functions, and shows exactly the
   "Please enter a query" error. *)
C1_EmptyQueryNoRemoteCall ==
    (button /\ ~Truthy(query)) =>
        /\ calls = <<>>
        /\ trace = <<>>
        /\ ui = <<StError(EnterQueryMsg)>>
        /\ pc = "idle"
        /\ outcome = "returned"

C1_Witness == button /\ query = None /\ ui = <<StError(EnterQueryMsg)>>

(* C2: with the Pinecone key absent or empty, initialize_services() returns
   None and shows the missing-key error, main() adds its own error and
   returns; nothing is ever sent to a service and nothing is rendered. *)
C2_MissingKeyHalts ==
    ~Truthy(PINECONE_API_KEY) =>
        /\ calls = <<>>
        /\ ~Rendered
        /\ pc \notin {"embed", "search", "format"}
        /\ trace # <<>> =>
              /\ trace = <<"initialize_services">>
              /\ index = None
              /\ ui = <<StError(MissingKeyMsg), StError(InitFailedMsg)>>
              /\ pc = "idle"
              /\ outcome = "returned"

C2_Witness ==
    /\ PINECONE_API_KEY = PyStr("")
    /\ Truthy(query)
    /\ trace = <<"initialize_services">>
    /\ ui = <<StError(MissingKeyMsg), StError(InitFailedMsg)>>

(* C3: search_pinecone with a null index returns None at once, for every
   embedding, top_k and state of the service: it does not raise and sends no
   index query. *)
C3_NullHandleShortCircuits ==
    (SearchCalled /\ args.index = None) => res = Returned(None, <<>>, <<>>)

C3_Witness ==
    /\ SearchCalled
    /\ args.index = None
    /\ args.top_k = MaxTopK
    /\ CompleteMatches(args.reply)
    /\ res = Returned(None, <<>>, <<>>)

(* C4: for a result whose match list is present but empty,
   format_results_as_stylist_response returns the apology string and sends no
   chat-completion request. *)
C4_EmptyMatchesApology ==
    (FormatCalled /\ args.search_results = Dict([matches |-> <<>>]))
        => res = Returned(PyStr(Apology), <<>>, <<>>)

(* C5: for a results argument that is None, an empty mapping or a mapping
   without a "matches" entry, format_results_as_stylist_response returns the
   apology string and sends no chat-completion request, whatever the query. *)
C5_NoMatchListApology ==
    (FormatCalled /\ (args.search_results.t # "dict"
                       \/ "matches" \notin DOMAIN args.search_results.d))
        => res = Returned(PyStr("Sorry, I couldn't find any relevant products."), <<>>, <<>>)

C5_Witness ==
    /\ FormatCalled
    /\ args.search_results = Dict([namespace |-> PyStr("")])
    /\ args.query = PyStr("comfortable black shirts")
    /\ res.kind = "return"
    /\ res.sent = <<>>

(* C6: for N >= 1 matches that all carry name, category, price and url, one
   prompt is sent and its table has exactly N rows, in the order of the
   matches; row i holds match i's name, category, price, its description (the
   empty string when the key is absent) and [Link](url). *)
C6_OneRowPerMatchInOrder ==
    (FormatCalled /\ CompleteMatches(args.search_results)) =>
        LET matches == args.search_results.d["matches"]
            rows == PromptRows(SentPrompt(res))
        IN  /\ Len(res.sent) = 1
            /\ Len(rows) = Len(matches)
            /\ \A i \in 1..Len(matches) :
                 LET md == matches[i].metadata
                 IN  /\ Len(rows[i]) = 11
                     /\ rows[i][2] = md["name"].s
                     /\ rows[i][4] = md["category"].s
                     /\ rows[i][6] = ToString(md["price"].i)
                     /\ rows[i][8] = IF "description" \in DOMAIN md
                                     THEN md["description"].s ELSE ""
                     /\ SubSeq(rows[i], 9, 11) = <<" | [Link](", md["url"].s, ") |">>

C6_Witness ==
    /\ FormatCalled
    /\ CompleteMatches(args.search_results)
    /\ Len(args.search_results.d["matches"]) = MaxMatches
    /\ args.search_results.d["matches"][1].metadata["name"] = PyStr("Soft Crew")
    /\ args.search_results.d["matches"][2].metadata["name"] = PyStr("Classic Tee")
    /\ "description" \notin DOMAIN args.search_results.d["matches"][2].metadata
    /\ Len(PromptRows(SentPrompt(res))) = MaxMatches

(* C7: when some match lacks name, category, price or url, the call raises a
   KeyError naming a key that match lacks; nothing is returned and no
   chat-completion request is sent, wherever the match stands in the list. *)
C7_MissingFieldFailsWhole ==
    (FormatCalled /\ HasSomeMatch(args.search_results)
                  /\ ~CompleteMatches(args.search_results)) =>
        \E i \in 1..Len(args.search_results.d["matches"]) :
          \E k \in MissingKeys(args.search_results.d["matches"][i]) :
             res = Raised([type |-> "KeyError", key |-> k], <<>>, <<>>)

C7_Witness ==
    /\ FormatCalled
    /\ HasSomeMatch(args.search_results)
    /\ Len(args.search_results.d["matches"]) = 2
    /\ MissingKeys(args.search_results.d["matches"][1]) = {}
    /\ MissingKeys(args.search_results.d["matches"][2]) = {"price"}
    /\ res.kind = "raise"

(* C8: when the completion request was sent and its reply carries one or more
   choices, format_results_as_stylist_response returns the content of the
   first choice and main() renders that text under the subheader. *)
C8_FirstChoiceVerbatim ==
    (Len(calls) = 4 /\ response.t = "ChatCompletion" /\ Len(response.choices) >= 1) =>
        /\ outcome = "returned"
        /\ stylist_response = PyStr(response.choices[1].message.content)
        /\ ui = <<StSubheader(RecommendsMsg),
                  StMarkdown(PyStr(response.choices[1].message.content))>>

C8_Witness ==
    /\ Len(calls) = 4
    /\ response.t = "ChatCompletion"
    /\ Len(response.choices) = 2
    /\ response.choices[1] # response.choices[2]
    /\ Len(ui) = 2

(* C9: within a run the services are called in the order client, embedding,
   index query, chat completion, each at most once; a call is made only after
   the stages before it have given their values; after a raise the run is
   over, nothing is rendered, and the log of calls grows only by one call of a
   running run. *)
C9_Order ==
    /\ IsPrefix(Services(calls), PipelineCalls)
    /\ IsPrefix(trace, PipelineStages)
    /\ Len(calls) <= Len(trace)
    /\ Len(calls) >= 2 => index = IndexHandle
    /\ Len(calls) >= 3 => query_embedding \in Embeddings
    /\ Len(calls) >= 4 => HasSomeMatch(search_results)
    /\ outcome = "raised" => pc = "idle" /\ ~Rendered
    /\ Rendered => Len(calls) = 4 /\ outcome = "returned"

C9_Step ==
    calls' # calls =>
        \/ calls' = <<>>
        \/ outcome = "running" /\ pc # "idle" /\ calls' = Append(calls, calls'[Len(calls')])

(* C9: the order of the stages holds in every state (C9_Order) and every
   step respects it (C9_Step): no retry, no call after a failure. *)
C9_StrictSequence == []C9_Order /\ [][C9_Step]_vars

C9_Witness ==
    /\ Services(calls) = <<"Pinecone", "Embedding.create", "index.query">>
    /\ outcome = "raised"

(* C10: in a run of main() the chat-completion request is sent, and
   format_results_as_stylist_response is called, only for a search result with
   at least one match; a run whose search gave None, no "matches" entry or an
   empty list ends with the "No results found" warning and renders nothing. *)
C10_ChatOnlyWithMatches ==
    /\ (Len(calls) = 4 \/ Len(trace) = 4 \/ pc = "format" \/ Rendered)
          => HasSomeMatch(search_results)
    /\ (Len(trace) = 3 /\ outcome = "returned") =>
          /\ ~HasSomeMatch(search_results)
          /\ ui = <<StWarning(NoResultsMsg)>>
          /\ Len(calls) = 3
          /\ pc = "idle"

C10_Witness ==
    /\ Len(trace) = 3
    /\ outcome = "returned"
    /\ search_results = Dict([matches |-> <<>>])
    /\ ui = <<StWarning(NoResultsMsg)>>

====
